---- MODULE Spec2Model ----
(***************************************************************************)
(* Model of app.py, the four-step Streamlit wizard "Transport Network      *)
(* Automated Assessment": Step 1 merges two inventory workbooks, Step 2    *)
(* adds port data, Step 3 joins a nomination workbook to the inventory on  *)
(* PLA ID, Step 4 normalises the numeric columns and derives the Node and  *)
(* Loop Assessment of every row.                                           *)
(*                                                                         *)
(* Numbers are fixed-point integers in hundredths (1.00 is 100, 0.70 is    *)
(* 70).  A cell is NaN, a number or a text; a text is a sequence of        *)
(* one-character strings, so that str.replace and float() are computed.    *)
(* A DataFrame is [columns, rows], every row a function from the columns   *)
(* to cells.                                                               *)
(***************************************************************************)
EXTENDS Integers, Sequences, FiniteSets, TLC

VARIABLES
    session_state,               \* st.session_state: key -> DataFrame, for the keys present
    uploaded_inventory_files,    \* file_uploader task1_uploader: sequence of files
    uploaded_port_files,         \* file_uploader task2_uploader: sequence of files
    uploaded_nomination_file,    \* file_uploader task3_uploader: <<>> (None) or <<file>>
    button,                      \* the button pressed in this run of the script, 0 for none
    message,                     \* what this run reported
    assessment                   \* the DataFrame Step 4 shows in this run: <<>> or <<df>>

vars == <<session_state, uploaded_inventory_files, uploaded_port_files,
          uploaded_nomination_file, button, message, assessment>>

(***************************************************************************)
(* Bounds of the model.                                                    *)
(***************************************************************************)
MaxInvRows == 1      \* rows of one uploaded inventory workbook
MaxNomRows == 2      \* rows of the uploaded nomination workbook

(***************************************************************************)
(* Cells, rows and DataFrames.                                             *)
(***************************************************************************)
NaN == [k |-> "nan"]
Num(v) == [k |-> "num", v |-> v]
Str(s) == [k |-> "str", s |-> s]

IsStr(c) == c.k = "str"
IsNum(c) == c.k = "num"

DataFrame0 == [columns |-> {}, rows |-> <<>>]

Ok(v) == [exc |-> FALSE, val |-> v]
Raise == [exc |-> TRUE]

\* pd.read_excel: an unreadable workbook raises
read_excel(f) == IF f.readable THEN Ok(f.df) ELSE Raise

\* a row seen under a wider column set: the cells it lacks are NaN
reindex(row, cols) == [c \in cols |-> IF c \in DOMAIN row THEN row[c] ELSE NaN]

\* pd.DataFrame(list of Series): the columns are the union of the rows' labels
DataFrame(rws) ==
    LET cols == UNION {DOMAIN rws[i] : i \in 1..Len(rws)}
    IN  [columns |-> cols, rows |-> [i \in 1..Len(rws) |-> reindex(rws[i], cols)]]

\* pd.concat([df1, df2], ignore_index=True)
concat(df1, df2) == DataFrame(df1.rows \o df2.rows)

RECURSIVE SelectIdx(_, _, _)
SelectIdx(rws, keep, i) ==
    IF i > Len(rws) THEN <<>>
    ELSE (IF i \in keep THEN <<rws[i]>> ELSE <<>>) \o SelectIdx(rws, keep, i + 1)

\* df.drop_duplicates(subset=[key], keep='first'); KeyError when the column is absent
drop_duplicates(df, key) ==
    IF key \notin df.columns THEN Raise
    ELSE LET keep == {i \in 1..Len(df.rows) :
                        \A j \in 1..(i - 1) : df.rows[j][key] # df.rows[i][key]}
         IN  Ok([columns |-> df.columns, rows |-> SelectIdx(df.rows, keep, 1)])

\* df[cols]
project(df, cols) ==
    [columns |-> cols,
     rows |-> [i \in 1..Len(df.rows) |-> [c \in cols |-> df.rows[i][c]]]]

\* elementwise ==: NaN equals nothing, a text never equals a number
CellEq(a, b) == a.k # "nan" /\ b.k # "nan" /\ a = b

(***************************************************************************)
(* Texts.                                                                  *)
(***************************************************************************)
DigitChars == <<"0", "1", "2", "3", "4", "5", "6", "7", "8", "9">>
IsDigit(c) == \E i \in 1..Len(DigitChars) : DigitChars[i] = c
DigitVal(c) == (CHOOSE i \in 1..Len(DigitChars) : DigitChars[i] = c) - 1

\* the hundredths in one unit, and the divisor of the percentage branch
Hundred == 100

RECURSIVE DigitsValue(_)
DigitsValue(s) ==
    IF s = <<>> THEN 0
    ELSE 10 * DigitsValue(SubSeq(s, 1, Len(s) - 1)) + DigitVal(s[Len(s)])

\* float(text) on texts of digits, '%' and letters: a non-empty run of digits parses
float(s) ==
    IF s # <<>> /\ \A i \in 1..Len(s) : IsDigit(s[i])
    THEN Ok(DigitsValue(s) * Hundred)
    ELSE Raise

\* text.replace('%', '', regex=False)
replace_percent(s) == SelectSeq(s, LAMBDA c : c # "%")

(***************************************************************************)
(* st.session_state.                                                       *)
(***************************************************************************)
Store(s, key, df) == [x \in (DOMAIN s) \cup {key} |-> IF x = key THEN df ELSE s[x]]

Outcome(msg, s) == [msg |-> msg, st |-> s]

(***************************************************************************)
(* Step 1: Merge Inventory.                                                *)
(***************************************************************************)
final_columns ==
    {"Transport NE", "PLA ID", "Site Name", "Territory", "Network Type",
     "Equipment Type/Model", "Equipment Status", "AN CONFIG TYPE", "LOOP NAME",
     "MYCOM LOOP CATEGORY", "LOOP CAPACITY CATEGORY", "MYCOM GW1 CAPACITY (GBPS)",
     "MYCOM GW2 CAPACITY (GBPS)", "MYCOM LOOP NORMAL UTILIZATION",
     "MYCOM LOOP NORMAL STATUS", "MYCOM LOOP OUTAGE UTILIZATION",
     "MYCOM LOOP OUTAGE STATUS", "AG1 HOMING NE NAME", "AG2 HOMING NE NAME"}

\* the body of the try block: read both workbooks, concatenate, drop the
\* duplicates of Transport NE, keep the final columns that exist
merge_inventory(files) ==
    LET r1 == read_excel(files[1])
        r2 == read_excel(files[2])
    IN  IF r1.exc \/ r2.exc THEN Raise
        ELSE LET d == drop_duplicates(concat(r1.val, r2.val), "Transport NE")
             IN  IF d.exc THEN Raise
                 ELSE Ok(project(d.val, final_columns \cap d.val.columns))

\* a handler that stores the concatenation before the duplicates are dropped
Task1StoreEarly(s, files) ==
    IF Len(files) # 2 THEN Outcome("error", s)
    ELSE LET r1 == read_excel(files[1])
             r2 == read_excel(files[2])
         IN  IF r1.exc \/ r2.exc THEN Outcome("exception", s)
             ELSE LET r == merge_inventory(files)
                  IN  IF r.exc
                      THEN Outcome("exception",
                                   Store(s, "merged_inventory_df", concat(r1.val, r2.val)))
                      ELSE Outcome("success", Store(s, "merged_inventory_df", r.val))

Task1(s, files) ==
    IF Len(files) # 2 THEN Outcome("error", s)
    ELSE LET r == merge_inventory(files)
         IN  IF r.exc THEN Outcome("exception", s)
             ELSE Outcome("success", Store(s, "merged_inventory_df", r.val))

(***************************************************************************)
(* Step 2: Add Port Data.                                                  *)
(***************************************************************************)
columns_to_copy ==
    {"NE_Name", "GE_1G", "Total_of_GE_1G", "GE_10G", "Total_of_GE_10G", "25GE"}

\* the rows pd.merge(how='left') makes of one left row: one per right row of the
\* same key, in the right's order, or one with the right's cells NaN
merge_row(lrow, right, left_on, right_on) ==
    LET hits == SelectSeq(right.rows, LAMBDA r : r[right_on] = lrow[left_on])
        cols == (DOMAIN lrow) \cup right.columns
        join(r) == [c \in cols |-> IF c \in DOMAIN lrow THEN lrow[c] ELSE r[c]]
    IN  IF hits = <<>> THEN <<reindex(lrow, cols)>>
        ELSE [j \in 1..Len(hits) |-> join(hits[j])]

RECURSIVE merge_rows(_, _, _, _, _)
merge_rows(left, right, left_on, right_on, i) ==
    IF i > Len(left.rows) THEN <<>>
    ELSE merge_row(left.rows[i], right, left_on, right_on)
         \o merge_rows(left, right, left_on, right_on, i + 1)

\* pd.merge(left, right, left_on=..., right_on=..., how='left')
merge(left, right, left_on, right_on) ==
    IF left_on \notin left.columns \/ right_on \notin right.columns THEN Raise
    ELSE Ok([columns |-> left.columns \cup right.columns,
             rows |-> merge_rows(left, right, left_on, right_on, 1)])

\* df.drop(columns=[col])
drop(df, col) == project(df, df.columns \ {col})

\* the key Step 2 stores its result under
Task2KeyWrong == "processed_nomination_df"

Task2Key == "inventory_with_ports_df"

Task2(s, files) ==
    IF "merged_inventory_df" \notin DOMAIN s THEN Outcome("warning", s)
    ELSE IF Len(files) # 2 THEN Outcome("error", s)
    ELSE LET df_main == s["merged_inventory_df"]
             r1 == read_excel(files[1])
             r2 == read_excel(files[2])
         IN  IF r1.exc \/ r2.exc THEN Outcome("exception", s)
             ELSE LET df_ports == concat(r1.val, r2.val)
                  IN  IF ~(columns_to_copy \subseteq df_ports.columns)
                      THEN Outcome("error", s)
                      ELSE LET port_data_to_merge ==
                                   drop_duplicates(project(df_ports, columns_to_copy),
                                                   "NE_Name").val
                               m == merge(df_main, port_data_to_merge,
                                          "Transport NE", "NE_Name")
                           IN  IF m.exc THEN Outcome("exception", s)
                               ELSE Outcome("success",
                                            Store(s, Task2Key, drop(m.val, "NE_Name")))

(***************************************************************************)
(* Step 3: Process Nomination.                                             *)
(***************************************************************************)
\* Series.add_prefix
add_prefix(row, p) ==
    [c \in {p \o k : k \in DOMAIN row} |-> row[CHOOSE k \in DOMAIN row : p \o k = c]]

\* pd.concat([a, b]) of two Series with disjoint labels
series_concat(a, b) ==
    [c \in (DOMAIN a) \cup (DOMAIN b) |-> IF c \in DOMAIN a THEN a[c] ELSE b[c]]

\* df_inventory[df_inventory['PLA ID'] == pla_id]
matches_of(df_inventory, pla_id) ==
    SelectSeq(df_inventory.rows, LAMBDA r : CellEq(r["PLA ID"], pla_id))

\* a selection that takes the last match
select_last(matches) ==
    IF matches # <<>> THEN matches[Len(matches)] ELSE <<>>

\* matches.iloc[0] if not matches.empty else pd.Series(dtype=object)
selected_inventory_row(matches) ==
    IF matches # <<>> THEN matches[1] ELSE <<>>

combined_row(df_inventory, nom_row) ==
    series_concat(nom_row,
                  add_prefix(selected_inventory_row(
                                 matches_of(df_inventory, nom_row["PLA ID"])), "Inv_"))

\* a loop that appends a row only when the inventory has a match
processed_rows_inner(df_inventory, df_nomination) ==
    LET hit == SelectSeq(df_nomination.rows,
                         LAMBDA r : matches_of(df_inventory, r["PLA ID"]) # <<>>)
    IN  [i \in 1..Len(hit) |-> combined_row(df_inventory, hit[i])]

\* the for loop over df_nomination.iterrows()
processed_rows(df_inventory, df_nomination) ==
    [i \in 1..Len(df_nomination.rows) |->
        combined_row(df_inventory, df_nomination.rows[i])]

\* the body of the try block; the loop body raises KeyError when either table
\* has no PLA ID column
process_nomination(df_inventory, file) ==
    LET r == read_excel(file)
    IN  IF r.exc THEN Raise
        ELSE IF Len(r.val.rows) > 0
                /\ ("PLA ID" \notin r.val.columns \/ "PLA ID" \notin df_inventory.columns)
        THEN Raise
        ELSE Ok(DataFrame(processed_rows(df_inventory, r.val)))

Task3(s, file) ==
    IF "inventory_with_ports_df" \notin DOMAIN s THEN Outcome("warning", s)
    ELSE IF file = <<>> THEN Outcome("error", s)
    ELSE LET r == process_nomination(s["inventory_with_ports_df"], file[1])
         IN  IF r.exc THEN Outcome("exception", s)
             ELSE Outcome("success", Store(s, "processed_nomination_df", r.val))

(***************************************************************************)
(* Step 4: Run Final Assessment.                                           *)
(***************************************************************************)
numeric_cols ==
    {"GE Port Demand", "10GE Port Demand", "Inv_GE_1G", "Inv_GE_10G",
     "Inv_MYCOM LOOP NORMAL UTILIZATION"}

\* thresholds of the assessment rules, in hundredths
MinDemand == 100
HeadroomLimit == 200
LoopThreshold == 70

\* the dtype pd.DataFrame(processed_rows) infers for a column: object when the
\* column holds a text, a float otherwise
dtype(df, col) ==
    IF \E i \in 1..Len(df.rows) : IsStr(df.rows[i][col]) THEN "object" ELSE "float64"

\* one cell of column.str.replace('%', '', regex=False).astype(float) / 100:
\* .str gives NaN for a cell that is no text, astype raises on a text that is no number
percent_cell(c) ==
    IF IsStr(c)
    THEN LET f == float(replace_percent(c.s))
         IN  IF f.exc THEN Raise ELSE Ok(Num(f.val \div Hundred))
    ELSE Ok(NaN)

\* the branch taken when the loop-utilization column has dtype object
percent_column(df, col) ==
    IF \E i \in 1..Len(df.rows) : percent_cell(df.rows[i][col]).exc THEN Raise
    ELSE Ok([columns |-> df.columns,
             rows |-> [i \in 1..Len(df.rows) |->
                          [c \in df.columns |->
                              IF c = col THEN percent_cell(df.rows[i][c]).val
                              ELSE df.rows[i][c]]]])

\* one cell of pd.to_numeric(column, errors='coerce').fillna(0)
to_numeric_fillna(c) ==
    IF IsNum(c) THEN c
    ELSE IF IsStr(c)
    THEN LET f == float(c.s) IN IF f.exc THEN Num(0) ELSE Num(f.val)
    ELSE Num(0)

coerce_numeric(df) ==
    [columns |-> df.columns,
     rows |-> [i \in 1..Len(df.rows) |->
                  [c \in df.columns |->
                      IF c \in numeric_cols THEN to_numeric_fillna(df.rows[i][c])
                      ELSE df.rows[i][c]]]]

RECURSIVE str_join(_, _)
str_join(sep, parts) ==
    IF Len(parts) = 1 THEN parts[1]
    ELSE parts[1] \o sep \o str_join(sep, Tail(parts))

\* the condition of one augmentation check
port_check(demand, capacity) ==
    demand >= MinDemand /\ (capacity - demand) <= HeadroomLimit

\* a verdict that asks for both demands before it reports headroom
get_node_assessment_and(row) ==
    LET d1 == row["GE Port Demand"].v
        d10 == row["10GE Port Demand"].v
        failures ==
            (IF port_check(d1, row["Inv_GE_1G"].v)
             THEN <<"Requires Port Augmentation">> ELSE <<>>)
            \o (IF port_check(d10, row["Inv_GE_10G"].v)
                THEN <<"Requires Port Augmentation">> ELSE <<>>)
    IN  IF failures = <<>>
        THEN (IF d1 >= MinDemand /\ d10 >= MinDemand
              THEN "With Headroom" ELSE "No Port Demand")
        ELSE str_join(" & ", failures)

get_node_assessment(row) ==
    LET d1 == row["GE Port Demand"].v
        d10 == row["10GE Port Demand"].v
        failures ==
            (IF port_check(d1, row["Inv_GE_1G"].v)
             THEN <<"Requires Port Augmentation">> ELSE <<>>)
            \o (IF port_check(d10, row["Inv_GE_10G"].v)
                THEN <<"Requires Port Augmentation">> ELSE <<>>)
    IN  IF failures = <<>>
        THEN (IF d1 >= MinDemand \/ d10 >= MinDemand
              THEN "With Headroom" ELSE "No Port Demand")
        ELSE str_join(" & ", failures)

\* a verdict that compares with > instead of >=
get_loop_assessment_gt(row) ==
    IF row["Inv_MYCOM LOOP NORMAL UTILIZATION"].v > LoopThreshold
    THEN "Requires Loop Upgrade" ELSE "With Headroom"

get_loop_assessment(row) ==
    IF row["Inv_MYCOM LOOP NORMAL UTILIZATION"].v >= LoopThreshold
    THEN "Requires Loop Upgrade" ELSE "With Headroom"

\* df['Node Assessment'] = df.apply(...); df['Loop Assessment'] = df.apply(...)
assess(df) ==
    [columns |-> df.columns \cup {"Node Assessment", "Loop Assessment"},
     rows |-> [i \in 1..Len(df.rows) |->
                  [c \in df.columns \cup {"Node Assessment", "Loop Assessment"} |->
                      IF c = "Node Assessment" THEN get_node_assessment(df.rows[i])
                      ELSE IF c = "Loop Assessment" THEN get_loop_assessment(df.rows[i])
                      ELSE df.rows[i][c]]]]

\* the body of the else branch under the column check
run_assessment(df) ==
    LET util == "Inv_MYCOM LOOP NORMAL UTILIZATION"
        scaled == IF dtype(df, util) = "object" THEN percent_column(df, util) ELSE Ok(df)
    IN  IF scaled.exc THEN Raise ELSE Ok(assess(coerce_numeric(scaled.val)))

\* Step 4 writes nothing to the session state; out is the DataFrame it shows
Task4(s) ==
    IF "processed_nomination_df" \notin DOMAIN s
    THEN [msg |-> "warning", st |-> s, out |-> <<>>]
    ELSE LET df == s["processed_nomination_df"]
         IN  IF ~(numeric_cols \subseteq df.columns)
             THEN [msg |-> "error", st |-> s, out |-> <<>>]
             ELSE LET r == run_assessment(df)
                  IN  IF r.exc THEN [msg |-> "exception", st |-> s, out |-> <<>>]
                      ELSE [msg |-> "success", st |-> s, out |-> <<r.val>>]

(***************************************************************************)
(* The runs of the script: an upload reruns it with no button pressed, a   *)
(* button press reruns it with that button's handler.                      *)
(***************************************************************************)
UploadInventory(uploads) ==
    /\ \E f \in uploads : uploaded_inventory_files' = f
    /\ button' = 0 /\ message' = "none" /\ assessment' = <<>>
    /\ UNCHANGED <<session_state, uploaded_port_files, uploaded_nomination_file>>

UploadPorts(uploads) ==
    /\ \E f \in uploads : uploaded_port_files' = f
    /\ button' = 0 /\ message' = "none" /\ assessment' = <<>>
    /\ UNCHANGED <<session_state, uploaded_inventory_files, uploaded_nomination_file>>

UploadNomination(uploads) ==
    /\ \E f \in uploads : uploaded_nomination_file' = f
    /\ button' = 0 /\ message' = "none" /\ assessment' = <<>>
    /\ UNCHANGED <<session_state, uploaded_inventory_files, uploaded_port_files>>

Task1Button ==
    LET o == Task1(session_state, uploaded_inventory_files)
    IN  /\ session_state' = o.st
        /\ message' = o.msg
        /\ button' = 1
        /\ assessment' = <<>>
        /\ UNCHANGED <<uploaded_inventory_files, uploaded_port_files,
                       uploaded_nomination_file>>

Task2Button ==
    LET o == Task2(session_state, uploaded_port_files)
    IN  /\ session_state' = o.st
        /\ message' = o.msg
        /\ button' = 2
        /\ assessment' = <<>>
        /\ UNCHANGED <<uploaded_inventory_files, uploaded_port_files,
                       uploaded_nomination_file>>

Task3Button ==
    LET o == Task3(session_state, uploaded_nomination_file)
    IN  /\ session_state' = o.st
        /\ message' = o.msg
        /\ button' = 3
        /\ assessment' = <<>>
        /\ UNCHANGED <<uploaded_inventory_files, uploaded_port_files,
                       uploaded_nomination_file>>

Task4Button ==
    LET o == Task4(session_state)
    IN  /\ session_state' = o.st
        /\ message' = o.msg
        /\ button' = 4
        /\ assessment' = o.out
        /\ UNCHANGED <<uploaded_inventory_files, uploaded_port_files,
                       uploaded_nomination_file>>

(***************************************************************************)
(* Uploaded workbooks.                                                     *)
(***************************************************************************)
Workbook(cols, rws) == [readable |-> TRUE, df |-> [columns |-> cols, rows |-> rws]]
Corrupt == [readable |-> FALSE, df |-> DataFrame0]

SeqsUpTo(S, n) == UNION {[1..k -> S] : k \in 0..n}

PlaId(n) == Num(n * Hundred)

InventoryColumns ==
    {"Transport NE", "PLA ID", "MYCOM LOOP NORMAL UTILIZATION", "Vendor"}

InvRow(ne, pla, util) ==
    ("Transport NE" :> Str(<<ne>>)) @@ ("PLA ID" :> pla)
    @@ ("MYCOM LOOP NORMAL UTILIZATION" :> util) @@ ("Vendor" :> NaN)

PortRow(ne, ge1g, ge10g, ge25) ==
    ("NE_Name" :> Str(<<ne>>)) @@ ("GE_1G" :> ge1g) @@ ("Total_of_GE_1G" :> ge1g)
    @@ ("GE_10G" :> ge10g) @@ ("Total_of_GE_10G" :> ge10g) @@ ("25GE" :> ge25)

NominationColumns == {"PLA ID", "GE Port Demand", "10GE Port Demand"}

NomRow(pla, d1, d10) ==
    ("PLA ID" :> pla) @@ ("GE Port Demand" :> d1) @@ ("10GE Port Demand" :> d10)

\* the port workbooks of the join and loop runs: node A has 5/4/0 ports, node B 3/4/0
PortUploadAB ==
    <<Workbook(columns_to_copy, <<PortRow("A", Num(500), Num(400), Num(0))>>),
      Workbook(columns_to_copy, <<PortRow("B", Num(300), Num(400), Num(0))>>)>>

(***************************************************************************)
(* The wizard: any sequence of uploads and button presses, over a few      *)
(* sample workbooks.                                                       *)
(***************************************************************************)
WizardInventoryUploads ==
    LET a == Workbook(InventoryColumns, <<InvRow("A", PlaId(100), Str(<<"8", "0", "%">>))>>)
        b == Workbook(InventoryColumns, <<InvRow("B", PlaId(100), Str(<<"5", "0", "%">>))>>)
        no_ne == Workbook({"PLA ID"}, <<("PLA ID" :> PlaId(100))>>)
    IN  {<<>>, <<a>>, <<a, b>>, <<a, a>>, <<a, Corrupt>>, <<no_ne, no_ne>>}

WizardPortUploads ==
    LET no_25 == Workbook(columns_to_copy \ {"25GE"}, <<>>)
    IN  {<<>>, PortUploadAB, <<PortUploadAB[1], Corrupt>>, <<PortUploadAB[1], no_25>>}

WizardNominationUploads ==
    {<<>>,
     <<Workbook(NominationColumns, <<NomRow(PlaId(100), Num(200), Num(0))>>)>>,
     <<Workbook(NominationColumns, <<NomRow(PlaId(300), Num(100), Num(0))>>)>>,
     <<Workbook({"GE Port Demand"}, <<("GE Port Demand" :> Num(100))>>)>>,
     <<Corrupt>>}

Init ==
    /\ session_state = <<>>
    /\ uploaded_inventory_files = <<>>
    /\ uploaded_port_files = <<>>
    /\ uploaded_nomination_file = <<>>
    /\ button = 0
    /\ message = "none"
    /\ assessment = <<>>

Next ==
    \/ UploadInventory(WizardInventoryUploads)
    \/ UploadPorts(WizardPortUploads)
    \/ UploadNomination(WizardNominationUploads)
    \/ Task1Button
    \/ Task2Button
    \/ Task3Button
    \/ Task4Button

Spec == Init /\ [][Next]_vars

(***************************************************************************)
(* The handlers of Steps 3 and 4 on their own: the session is the one      *)
(* Steps 1 and 2 (and 3) leave for the uploads drawn, and the one action   *)
(* is the button of the step.                                              *)
(***************************************************************************)
AfterStep2(inv, ports) == Task2(Task1(<<>>, inv).st, ports)
AfterStep3(inv, ports, nom) == Task3(AfterStep2(inv, ports).st, nom)

\* Step 3: inventories of up to MaxInvRows rows a workbook, nodes A and B
JoinInventoryFiles ==
    LET rws == {InvRow("A", PlaId(n), Num(50)) : n \in {100, 200}}
               \cup {InvRow("B", PlaId(n), Str(<<"8", "0", "%">>)) : n \in {100, 200}}
    IN  {Workbook(InventoryColumns, r) : r \in SeqsUpTo(rws, MaxInvRows)}

JoinNominationUploads ==
    LET rws == {NomRow(pla, d1, Num(0)) :
                  pla \in {PlaId(100), PlaId(200), PlaId(300), NaN},
                  d1 \in {Num(0), Num(100)}}
    IN  {<<Workbook(NominationColumns, r)>> : r \in SeqsUpTo(rws, MaxNomRows)}
        \cup {<<Corrupt>>,
              <<Workbook({"GE Port Demand"}, <<("GE Port Demand" :> Num(100))>>)>>}

InitJoin ==
    \E f1 \in JoinInventoryFiles, f2 \in JoinInventoryFiles, nom \in JoinNominationUploads :
        /\ uploaded_inventory_files = <<f1, f2>>
        /\ uploaded_port_files = PortUploadAB
        /\ uploaded_nomination_file = nom
        /\ session_state = AfterStep2(<<f1, f2>>, PortUploadAB).st
        /\ button = 2
        /\ message = AfterStep2(<<f1, f2>>, PortUploadAB).msg
        /\ assessment = <<>>

SpecJoin == InitJoin /\ [][Task3Button]_vars

\* Step 4, port rules: one node with its port counts drawn, nominations with
\* the demands drawn (0, 0.5, 1 and 2 ports of 1G; 0 and 1 of 10G)
NodePortUploads ==
    {<<Workbook(columns_to_copy, <<PortRow("A", Num(g1), Num(g10), Num(g25))>>),
       Workbook(columns_to_copy, <<>>)>> :
        g1 \in {0, 300, 400}, g10 \in {100, 400}, g25 \in {0, 500}}

NodeInventoryUpload ==
    <<Workbook(InventoryColumns, <<InvRow("A", PlaId(100), Num(50))>>),
      Workbook(InventoryColumns, <<>>)>>

NodeNominationUploads ==
    LET rws == {NomRow(pla, Num(d1), Num(d10)) :
                  pla \in {PlaId(100), PlaId(300)},
                  d1 \in {0, 50, 100, 200}, d10 \in {0, 100}}
    IN  {<<Workbook(NominationColumns, r)>> : r \in SeqsUpTo(rws, MaxNomRows)}

InitNode ==
    \E ports \in NodePortUploads, nom \in NodeNominationUploads :
        /\ uploaded_inventory_files = NodeInventoryUpload
        /\ uploaded_port_files = ports
        /\ uploaded_nomination_file = nom
        /\ session_state = AfterStep3(NodeInventoryUpload, ports, nom).st
        /\ button = 3
        /\ message = AfterStep3(NodeInventoryUpload, ports, nom).msg
        /\ assessment = <<>>

SpecNode == InitNode /\ [][Task4Button]_vars

\* Step 4, loop utilization: two nodes with the utilization cell drawn among
\* blank, numbers and texts, or workbooks without the column
UtilCells ==
    {NaN, Num(69), Num(70), Num(7000),
     Str(<<"7", "0", "%">>), Str(<<"6", "9", "%">>), Str(<<"7", "0">>),
     Str(<<"a", "b", "c">>)}

LoopInventoryUploads ==
    {<<Workbook(InventoryColumns, <<InvRow("A", PlaId(100), u)>>),
       Workbook(InventoryColumns, <<InvRow("B", PlaId(200), v)>>)>> :
        u \in UtilCells, v \in UtilCells}
    \cup {<<Workbook({"Transport NE", "PLA ID"},
                     <<("Transport NE" :> Str(<<"A">>)) @@ ("PLA ID" :> PlaId(100))>>),
            Workbook({"Transport NE", "PLA ID"}, <<>>)>>}

LoopNominationUploads ==
    LET rws == {NomRow(pla, d1, Num(0)) :
                  pla \in {PlaId(100), PlaId(200), PlaId(300)},
                  d1 \in {Num(100), NaN, Str(<<"x">>)}}
    IN  {<<Workbook(NominationColumns, r)>> : r \in SeqsUpTo(rws, MaxNomRows)}

InitLoop ==
    \E inv \in LoopInventoryUploads, nom \in LoopNominationUploads :
        /\ uploaded_inventory_files = inv
        /\ uploaded_port_files = PortUploadAB
        /\ uploaded_nomination_file = nom
        /\ session_state = AfterStep3(inv, PortUploadAB, nom).st
        /\ button = 3
        /\ message = AfterStep3(inv, PortUploadAB, nom).msg
        /\ assessment = <<>>

SpecLoop == InitLoop /\ [][Task4Button]_vars

(***************************************************************************)
(* Properties.                                                             *)
(***************************************************************************)
Step3Done == button = 3 /\ message = "success"
Nomination == uploaded_nomination_file[1].df
Inventory == session_state["inventory_with_ports_df"]
Processed == session_state["processed_nomination_df"]
Shown == assessment[1]
UtilCol == "Inv_MYCOM LOOP NORMAL UTILIZATION"

C2_FirstMatchSelected ==
    Step3Done =>
        \A i \in 1..Len(Nomination.rows) : \A j \in 1..Len(Inventory.rows) :
            (/\ CellEq(Inventory.rows[j]["PLA ID"], Nomination.rows[i]["PLA ID"])
             /\ \A k \in 1..(j - 1) :
                    ~CellEq(Inventory.rows[k]["PLA ID"], Nomination.rows[i]["PLA ID"]))
            => \A c \in Inventory.columns :
                   Processed.rows[i]["Inv_" \o c] = Inventory.rows[j][c]

\* Step 3 has joined a nomination row whose PLA ID two different inventory rows share
C2_Witness ==
    /\ Step3Done
    /\ \E i \in 1..Len(Nomination.rows) : \E j, k \in 1..Len(Inventory.rows) :
           /\ j < k
           /\ CellEq(Inventory.rows[j]["PLA ID"], Nomination.rows[i]["PLA ID"])
           /\ CellEq(Inventory.rows[k]["PLA ID"], Nomination.rows[i]["PLA ID"])
           /\ Inventory.rows[j] # Inventory.rows[k]

\* the 25G port capacity of an assessed row exceeds 2
Override25G(row) ==
    /\ "Inv_25GE" \in DOMAIN row
    /\ IsNum(row["Inv_25GE"])
    /\ row["Inv_25GE"].v > 2 * Hundred

\* C3: every assessed row whose 25G port capacity exceeds 2 has the Node
\* Assessment "With Headroom".
C3_Override25GGivesHeadroom ==
    assessment # <<>> =>
        \A i \in 1..Len(Shown.rows) :
            Override25G(Shown.rows[i]) => Shown.rows[i]["Node Assessment"] = "With Headroom"

\* the augmentation check as the specification words it: fewer than 2 spare ports
SpecFlag(demand, capacity) == demand >= 1 * Hundred /\ (capacity - demand) < 2 * Hundred

FlagCount(f1, f10) == (IF f1 THEN 1 ELSE 0) + (IF f10 THEN 1 ELSE 0)

\* C4: in every assessed row without the 25G override, "Requires Port
\* Augmentation" appears once for each of the 1G and 10G pairs with demand >= 1
\* and (capacity - demand) < 2, and for no other pair.
C4_FlagIffBelowTwoSpare ==
    assessment # <<>> =>
        \A i \in 1..Len(Shown.rows) :
            LET r == Shown.rows[i]
                n == FlagCount(SpecFlag(r["GE Port Demand"].v, r["Inv_GE_1G"].v),
                               SpecFlag(r["10GE Port Demand"].v, r["Inv_GE_10G"].v))
            IN  ~Override25G(r) =>
                    (r["Node Assessment"] =
                        "Requires Port Augmentation & Requires Port Augmentation") = (n = 2)
                    /\ (r["Node Assessment"] = "Requires Port Augmentation") = (n = 1)

\* the verdict the decision table gives a row, the demand that counts being
\* one that reaches min_demand
TableVerdict(r, counts(_)) ==
    LET n == FlagCount(port_check(r["GE Port Demand"].v, r["Inv_GE_1G"].v),
                       port_check(r["10GE Port Demand"].v, r["Inv_GE_10G"].v))
    IN  IF n = 2 THEN "Requires Port Augmentation & Requires Port Augmentation"
        ELSE IF n = 1 THEN "Requires Port Augmentation"
        ELSE IF counts(r["GE Port Demand"].v) \/ counts(r["10GE Port Demand"].v)
        THEN "With Headroom"
        ELSE "No Port Demand"

\* C5 as claimed: in every assessed row without the 25G override the verdict is
\* the fired flags joined with " & ", else "With Headroom" when a demand is
\* positive, else "No Port Demand".
C5_VerdictTablePositiveDemand ==
    assessment # <<>> =>
        \A i \in 1..Len(Shown.rows) :
            ~Override25G(Shown.rows[i]) =>
                Shown.rows[i]["Node Assessment"]
                    = TableVerdict(Shown.rows[i], LAMBDA d : d > 0)

\* C5 as amended: in every assessed row without the 25G override the verdict is
\* the fired flags joined with " & ", else "With Headroom" when a demand is at
\* least 1, else "No Port Demand"; no other verdict is produced.
C5_VerdictTable ==
    assessment # <<>> =>
        \A i \in 1..Len(Shown.rows) :
            ~Override25G(Shown.rows[i]) =>
                Shown.rows[i]["Node Assessment"]
                    = TableVerdict(Shown.rows[i], LAMBDA d : d >= 1 * Hundred)

\* Step 4 has assessed a row on which both flags fired and a row whose only
\* demand lies strictly between 0 and 1
C5_Witness ==
    /\ assessment # <<>>
    /\ \E i, j \in 1..Len(Shown.rows) :
           /\ ~Override25G(Shown.rows[i]) /\ ~Override25G(Shown.rows[j])
           /\ Shown.rows[i]["Node Assessment"]
                  = "Requires Port Augmentation & Requires Port Augmentation"
           /\ Shown.rows[j]["GE Port Demand"].v > 0
           /\ Shown.rows[j]["GE Port Demand"].v < 1 * Hundred
           /\ Shown.rows[j]["10GE Port Demand"].v = 0
           /\ Shown.rows[j]["Node Assessment"] = "No Port Demand"

\* C6: every assessed row has the Loop Assessment "Requires Loop Upgrade" when
\* its normalized loop utilization is at least 0.70 and "With Headroom"
\* otherwise, whatever its port fields and its Node Assessment are.
C6_LoopThreshold ==
    assessment # <<>> =>
        \A i \in 1..Len(Shown.rows) :
            Shown.rows[i]["Loop Assessment"]
                = IF Shown.rows[i][UtilCol].v >= 70    \* 0.70 in hundredths
                  THEN "Requires Loop Upgrade" ELSE "With Headroom"

\* Step 4 has assessed a row at exactly 0.70 and a row just below it, and rows
\* of different Node Assessments
C6_Witness ==
    /\ assessment # <<>>
    /\ \E i, j \in 1..Len(Shown.rows) :
           /\ Shown.rows[i][UtilCol] = Num(70)
           /\ Shown.rows[i]["Loop Assessment"] = "Requires Loop Upgrade"
           /\ Shown.rows[j][UtilCol] = Num(69)
           /\ Shown.rows[j]["Loop Assessment"] = "With Headroom"
           /\ Shown.rows[i]["Node Assessment"] # Shown.rows[j]["Node Assessment"]

\* C7: in every table Step 4 assesses, a loop utilization that was a text is the
\* number of the text without '%' divided by 100, and one that was a number is
\* that number unchanged.
C7_NormalizedPerValue ==
    assessment # <<>> =>
        \A i \in 1..Len(Shown.rows) :
            LET raw == Processed.rows[i][UtilCol]
                norm == Shown.rows[i][UtilCol]
            IN  /\ IsNum(raw) => norm = raw
                /\ (IsStr(raw) /\ ~float(replace_percent(raw.s)).exc)
                       => norm = Num(float(replace_percent(raw.s)).val \div 100)

\* C8: whenever Step 4 runs on a processed table with rows it succeeds, shows as
\* many rows as the table has, every designated numeric field of every row a
\* number (0 where the cell was blank, absent or no number), and every row with
\* both assessments.
C8_NormalizationNeverFails ==
    (button = 4 /\ "processed_nomination_df" \in DOMAIN session_state
                /\ Len(Processed.rows) > 0) =>
        /\ message = "success"
        /\ assessment # <<>>
        /\ Len(Shown.rows) = Len(Processed.rows)
        /\ \A i \in 1..Len(Shown.rows) :
               /\ {"Node Assessment", "Loop Assessment"} \subseteq DOMAIN Shown.rows[i]
               /\ \A c \in numeric_cols :
                      /\ c \in DOMAIN Shown.rows[i]
                      /\ IsNum(Shown.rows[i][c])
                      /\ (c \in DOMAIN Processed.rows[i] /\ Processed.rows[i][c] = NaN)
                             => Shown.rows[i][c] = Num(0)

\* C9: the processed nomination is stored only with the inventory with ports,
\* the inventory with ports only with the merged inventory, and Step 4 shows
\* an assessment only when the processed nomination is stored.
C9_StepsInOrder ==
    /\ "processed_nomination_df" \in DOMAIN session_state
           => "inventory_with_ports_df" \in DOMAIN session_state
    /\ "inventory_with_ports_df" \in DOMAIN session_state
           => "merged_inventory_df" \in DOMAIN session_state
    /\ assessment # <<>> => "processed_nomination_df" \in DOMAIN session_state

\* Step 4 has shown an assessment
C9_Witness ==
    /\ button = 4
    /\ assessment # <<>>
    /\ DOMAIN session_state =
           {"merged_inventory_df", "inventory_with_ports_df", "processed_nomination_df"}

\* C10: a button press that does not report success leaves the session state
\* as it was.
C10_FailureLeavesSession ==
    [][(button' \in 1..4 /\ message' # "success") => session_state' = session_state]_vars

\* Step 3 has failed with an exception after an earlier run of it succeeded
C10_Witness ==
    /\ button = 3
    /\ message = "exception"
    /\ "processed_nomination_df" \in DOMAIN session_state

====
